---- MODULE Spec2Model ----
(***************************************************************************)
(* The Basic adapter of ember-inspector (app/adapters/basic.js): the list  *)
(* of message callbacks, the dispatch of inbound messages, the version     *)
(* handshake started by init, and the version comparator it uses.          *)
(***************************************************************************)
EXTENDS Integers, Sequences, FiniteSets, TLC

(***************************************************************************)
(* Bounds of the model.                                                    *)
(***************************************************************************)
\* most callbacks registered by callers (the internal listener comes on top)
MaxCallbacks == 2
\* most entries of the log of sendMessage calls
MaxSent == 2
\* most version-mismatch messages dispatched in the runs that count them
MaxReports == 2
\* largest major component of the comparator's inputs
MaxMajor == 2
\* largest patch component of the comparator's inputs
MaxPatch == 1

(***************************************************************************)
(* JavaScript values.  A string is the sequence of its characters; a       *)
(* number is an integer or NaN; an array is a sequence of values, read     *)
(* with a 0-based index that yields undefined when out of range.           *)
(***************************************************************************)
Undefined == [type |-> "undefined"]
NaN == [type |-> "NaN"]
Num(n) == [type |-> "number", val |-> n]
Str(chars) == [type |-> "string", chars |-> chars]
IsString(v) == v.type = "string"
\* undefined and the empty string are falsy, every other string is truthy
Truthy(v) == IsString(v) /\ v.chars # <<>>
ArrayGet(arr, i) == IF 0 <= i /\ i < Len(arr) THEN arr[i + 1] ELSE Undefined

DigitChars == <<"0", "1", "2", "3", "4", "5", "6", "7", "8", "9">>
IsDigit(c) == \E d \in 1..Len(DigitChars) : DigitChars[d] = c
DigitValue(c) == (CHOOSE d \in 1..Len(DigitChars) : DigitChars[d] = c) - 1

RECURSIVE DecimalValue(_)
DecimalValue(chars) ==
  IF chars = <<>> THEN 0
  ELSE 10 * DecimalValue(SubSeq(chars, 1, Len(chars) - 1))
       + DigitValue(chars[Len(chars)])

\* the rank of a text of one or two digits in the order of texts
LexRank(chars) ==
  IF chars = <<>> THEN 0
  ELSE (DigitValue(chars[1]) + 1) * 11
       + (IF Len(chars) > 1 THEN DigitValue(chars[2]) + 1 ELSE 0)

\* the components compared as texts, without the unary plus
ToNumberLexical(v) ==
  IF ~IsString(v) THEN NaN
  ELSE IF \A i \in 1..Len(v.chars) : IsDigit(v.chars[i])
       THEN Num(LexRank(v.chars))
       ELSE NaN

\* unary plus: undefined is NaN, the empty string is 0, a run of digits is
\* its decimal value, any other text over the model's alphabet (digits,
\* ".", "-" and the letters of a suffix) is NaN
ToNumber(v) ==
  IF ~IsString(v) THEN NaN
  ELSE IF \A i \in 1..Len(v.chars) : IsDigit(v.chars[i])
       THEN Num(DecimalValue(v.chars))
       ELSE NaN

\* val === number on numbers: NaN equals nothing
StrictEquals(x, y) == x.type = "number" /\ y.type = "number" /\ x.val = y.val
\* val < number on numbers: false when either side is NaN
LessThan(x, y) == x.type = "number" /\ y.type = "number" /\ x.val < y.val

(***************************************************************************)
(* The version comparator.                                                 *)
(***************************************************************************)
LESS == Num(-1)
EQUAL == Num(0)
GREATER == Num(1)

\* compare without its equality case
compareNoEqual(val, number) ==
  IF LessThan(val, number) THEN Num(-1)
  ELSE IF LessThan(number, val) \/ StrictEquals(val, number) THEN Num(1)
  ELSE Undefined

compare(val, number) ==
  IF StrictEquals(val, number) THEN Num(0)
  ELSE IF LessThan(val, number) THEN Num(-1)
  ELSE IF LessThan(number, val) THEN Num(1)
  ELSE Undefined

\* cleanupVersion that leaves the suffix in place
cleanupVersionKeep(version) == version

\* version.replace(/-.*/g, ''): the text before the first "-" (a version
\* text is one line, so .* runs to its end)
cleanupVersion(version) ==
  IF \E i \in 1..Len(version.chars) : version.chars[i] = "-"
  THEN LET i == CHOOSE i \in 1..Len(version.chars) :
                  /\ version.chars[i] = "-"
                  /\ \A j \in 1..(i - 1) : version.chars[j] # "-"
       IN Str(SubSeq(version.chars, 1, i - 1))
  ELSE version

\* String.prototype.split('.'): the array of the texts between the dots
RECURSIVE splitChars(_)
splitChars(chars) ==
  IF \E i \in 1..Len(chars) : chars[i] = "."
  THEN LET i == CHOOSE i \in 1..Len(chars) :
                  /\ chars[i] = "."
                  /\ \A j \in 1..(i - 1) : chars[j] # "."
       IN <<Str(SubSeq(chars, 1, i - 1))>>
          \o splitChars(SubSeq(chars, i + 1, Len(chars)))
  ELSE <<Str(chars)>>

split(version) == splitChars(version.chars)

\* the loop of compareVersion from index i on
RECURSIVE compareFrom(_, _, _)
compareFrom(version1, version2, i) ==
  IF i < 3
  THEN LET compared == compare(ToNumber(ArrayGet(version1, i)),
                               ToNumber(ArrayGet(version2, i)))
       IN IF compared # Num(0) THEN compared
          ELSE compareFrom(version1, version2, i + 1)
  ELSE Num(0)

compareVersion(version1, version2) ==
  compareFrom(split(cleanupVersion(version1)),
              split(cleanupVersion(version2)), 0)

(***************************************************************************)
(* Inputs: version texts, the build's configuration, inbound and outbound  *)
(* messages, and the callbacks callers register.                           *)
(***************************************************************************)
RECURSIVE Decimal(_)
Decimal(n) ==
  IF n < 10 THEN <<DigitChars[n + 1]>>
  ELSE Decimal(n \div 10) \o <<DigitChars[(n % 10) + 1]>>

\* the text "major.minor.patch" followed by suffix
VersionText(major, minor, patch, suffix) ==
  Str(Decimal(major) \o <<".">> \o Decimal(minor) \o <<".">> \o Decimal(patch)
      \o suffix)

BetaSuffix == <<"-", "b", "e", "t", "a", ".", "1">>

\* config.emberVersionsSupported and config.previousEmberVersionsSupported:
\* a window with two earlier versions, a window without an upper bound, a
\* window whose upper bound is the empty string, and a window with no
\* earlier version
WindowConfig ==
  [emberVersionsSupported |->
     <<VersionText(2, 0, 0, <<>>), VersionText(3, 0, 0, <<>>)>>,
   previousEmberVersionsSupported |->
     <<VersionText(1, 8, 0, <<>>), VersionText(1, 9, 0, <<>>)>>]
OpenConfig ==
  [emberVersionsSupported |-> <<VersionText(2, 0, 0, <<>>)>>,
   previousEmberVersionsSupported |-> <<VersionText(1, 9, 0, <<>>)>>]
EmptyTillConfig ==
  [emberVersionsSupported |-> <<VersionText(2, 0, 0, <<>>), Str(<<>>)>>,
   previousEmberVersionsSupported |->
     <<VersionText(0, 0, 0, <<>>), VersionText(1, 9, 0, <<>>)>>]
NoPreviousConfig ==
  [emberVersionsSupported |->
     <<VersionText(2, 0, 0, <<>>), VersionText(3, 0, 0, <<>>)>>,
   previousEmberVersionsSupported |-> <<>>]
Configs == {WindowConfig, OpenConfig, EmptyTillConfig, NoPreviousConfig}

ReportedVersions ==
  { VersionText(1, 5, 0, <<>>), VersionText(2, 0, 0, <<>>),
    VersionText(2, 5, 0, BetaSuffix), VersionText(3, 0, 0, <<>>),
    VersionText(3, 1, 0, <<>>) }

\* messages EmberDebug may deliver: mismatch reports, one without a
\* version, and a message of another name
InboundMessages ==
  { [name |-> "version-mismatch", version |-> v] : v \in ReportedVersions }
  \cup { [name |-> "version-mismatch", version |-> Undefined],
         [name |-> "view:renderTree", version |-> VersionText(1, 5, 0, <<>>)] }

NoMessage == [name |-> "", version |-> Undefined]

CheckVersionMessage == [type |-> "check-version", from |-> "devtools"]
OutboundMessages ==
  { CheckVersionMessage, [type |-> "general:refresh", from |-> "devtools"] }

\* the arrow function _checkVersion registers
CheckVersionListener == "checkVersion"
\* callbacks of callers: A returns, T throws, R registers LateCallback from
\* inside the dispatch
ExternalCallbacks == {"A", "T", "R"}
LateCallback == "A"
Behaviour(callback) ==
  CASE callback = "T" -> "throw"
    [] callback = "R" -> "register"
    [] OTHER -> "return"

(***************************************************************************)
(* The adapter.                                                            *)
(***************************************************************************)
VARIABLES
  config,              \* the imported build configuration
  _messageCallbacks,   \* the callbacks, in registration order
  sent,                \* the calls of sendMessage so far
  received,            \* the message of the last dispatch
  trace,               \* the calls made by the last dispatch, in order
  lastOp,              \* the operation that ran last
  version1, version2, version3,   \* inputs of the comparator
  suffix,              \* a pre-release suffix for version1
  compared,            \* the comparator's results on them
  reports,             \* how many version-mismatch messages were dispatched
  mismatches,          \* how many onVersionMismatch calls the adapter made
  lists,               \* with two adapters: the callback array of each
  registeredOn,        \* with two adapters: what was registered on each
  acting               \* with two adapters: the one that acted last

vars == <<config, _messageCallbacks, sent, received, trace, lastOp,
          version1, version2, version3, suffix, compared,
          reports, mismatches, lists, registeredOn, acting>>
adapterVars == <<config, _messageCallbacks, sent, received, trace, lastOp>>
comparatorVars == <<version1, version2, version3, suffix, compared>>
countVars == <<reports, mismatches>>
instanceVars == <<lists, registeredOn, acting>>

\* onMessageReceived that skips a callback already registered
onMessageReceivedUnique(callbacks, callback) ==
  IF \E i \in 1..Len(callbacks) : callbacks[i] = callback
  THEN callbacks
  ELSE Append(callbacks, callback)

\* onMessageReceived that puts the callback at the front of the list
onMessageReceivedFirst(callbacks, callback) == <<callback>> \o callbacks

\* this.get('_messageCallbacks').pushObject(callback)
onMessageReceived(callbacks, callback) == Append(callbacks, callback)

\* sendMessage is a hook without a body: the model logs the call, who made
\* it, and whether the version listener was registered when it was made
sendMessage(log, message, caller, callbacks) ==
  Append(log, [message |-> message, by |-> caller,
               listening |-> \E i \in 1..Len(callbacks) :
                                callbacks[i] = CheckVersionListener])

\* _checkVersion that sends before it registers its listener
_checkVersionSendFirst(self) ==
  LET asked ==
        [self EXCEPT !.sent = sendMessage(@, CheckVersionMessage,
                                          "_checkVersion", self.callbacks)]
  IN [asked EXCEPT !.callbacks = onMessageReceived(@, CheckVersionListener)]

\* _checkVersion on the adapter self = [callbacks, sent]
_checkVersion(self) ==
  LET registered ==
        [self EXCEPT !.callbacks = onMessageReceived(@, CheckVersionListener)]
  IN [registered EXCEPT !.sent = sendMessage(@, CheckVersionMessage,
                                             "_checkVersion",
                                             registered.callbacks)]

\* a new object has an empty _messageCallbacks; init runs _checkVersion
init == _checkVersion([callbacks |-> <<>>, sent |-> <<>>])

CallbackEvent(callback, message) ==
  [op |-> "callback", callback |-> callback, message |-> message,
   neededVersion |-> Undefined]
MismatchEvent(message, neededVersion) ==
  [op |-> "onVersionMismatch", callback |-> CheckVersionListener,
   message |-> message, neededVersion |-> neededVersion]

\* isTooOld that takes the lower bound itself for too old
isTooOldOrEqual(version, fromVersion) ==
  compareVersion(version, fromVersion) # Num(1)

\* isTooNew that lets the upper bound itself pass
isTooNewStrict(version, tillVersion) ==
  Truthy(tillVersion) /\ compareVersion(version, tillVersion) = Num(1)

\* isTooNew that takes a missing upper bound for one every version reaches
isTooNewUnbounded(version, tillVersion) ==
  ~Truthy(tillVersion) \/ compareVersion(version, tillVersion) # Num(-1)

\* the oldest of the previous versions instead of the newest
firstPreviousVersion(previousVersions) == ArrayGet(previousVersions, 0)

\* compareVersion(version, fromVersion) === -1
isTooOld(version, fromVersion) ==
  compareVersion(version, fromVersion) = Num(-1)

\* tillVersion && compareVersion(version, tillVersion) !== -1
isTooNew(version, tillVersion) ==
  Truthy(tillVersion) /\ compareVersion(version, tillVersion) # Num(-1)

\* previousVersions[previousVersions.length - 1]
lastPreviousVersion(previousVersions) ==
  ArrayGet(previousVersions, Len(previousVersions) - 1)

\* a listener that takes every message for a version report
isAnyMessage(name) == TRUE

\* name === 'version-mismatch'
isVersionMismatch(name) == name = "version-mismatch"

\* the listener of _checkVersion on a message under configuration cfg:
\* whether it throws, and the onVersionMismatch calls it makes
checkVersionListener(cfg, message) ==
  IF isVersionMismatch(message.name)
  THEN LET previousVersions == cfg.previousEmberVersionsSupported
           fromVersion == ArrayGet(cfg.emberVersionsSupported, 0)
           tillVersion == ArrayGet(cfg.emberVersionsSupported, 1)
       IN IF ~IsString(message.version)
          THEN \* cleanupVersion(undefined): TypeError
               [threw |-> TRUE, calls |-> <<>>]
          ELSE IF isTooOld(message.version, fromVersion)
          THEN [threw |-> FALSE,
                calls |-> <<MismatchEvent(message,
                              lastPreviousVersion(previousVersions))>>]
          ELSE IF isTooNew(message.version, tillVersion)
          THEN [threw |-> FALSE,
                calls |-> <<MismatchEvent(message, tillVersion)>>]
          ELSE [threw |-> FALSE, calls |-> <<>>]
  ELSE [threw |-> FALSE, calls |-> <<>>]

\* callback(message) in the state st = [callbacks, trace, threw]
invoke(cfg, st, callback, message) ==
  LET called == [st EXCEPT !.trace = Append(@, CallbackEvent(callback, message))]
  IN IF callback = CheckVersionListener
     THEN LET r == checkVersionListener(cfg, message)
          IN [called EXCEPT !.trace = @ \o r.calls, !.threw = r.threw]
     ELSE CASE Behaviour(callback) = "throw" ->
                 [called EXCEPT !.threw = TRUE]
            [] Behaviour(callback) = "register" ->
                 [called EXCEPT !.callbacks =
                                   onMessageReceived(@, LateCallback)]
            [] OTHER -> called

\* Array.prototype.forEach from index k: it visits the indices below the
\* length the array had when the iteration began, and a throw ends it
RECURSIVE forEachFrom(_, _, _, _, _)
forEachFrom(cfg, st, k, len, message) ==
  IF k > len THEN st
  ELSE LET next == invoke(cfg, st, st.callbacks[k], message)
       IN IF next.threw THEN next
          ELSE forEachFrom(cfg, next, k + 1, len, message)

_messageReceived(cfg, callbacks, message) ==
  forEachFrom(cfg, [callbacks |-> callbacks, trace |-> <<>>, threw |-> FALSE],
              1, Len(callbacks), message)

Op(name, callback, threw) ==
  [name |-> name, callback |-> callback, threw |-> threw]

NoVersion == Str(<<>>)
NotCompared == [done |-> FALSE]

\* the adapters of the two-adapter runs
Instances == {1, 2}

\* a second array for every adapter: a literal on the prototype
callbacksArrayShared(instance) == 1

\* this.get('_messageCallbacks'): the computed property makes one array
\* for each adapter, named here by the adapter
callbacksArray(instance) == instance

\* init of adapter instance on the arrays
create(arrays, instance) ==
  [arrays EXCEPT ![callbacksArray(instance)] =
     _checkVersion([callbacks |-> @, sent |-> <<>>]).callbacks]

\* no message counted yet
NothingCounted == reports = 0 /\ mismatches = 0

\* two adapters created one after the other, nothing registered by callers
TwoAdapters ==
  /\ lists = create(create([a \in Instances |-> <<>>], 1), 2)
  /\ registeredOn = [i \in Instances |-> <<CheckVersionListener>>]
  /\ acting = 1

Init ==
  /\ config \in Configs
  /\ _messageCallbacks = init.callbacks
  /\ sent = init.sent
  /\ received = NoMessage
  /\ trace = <<>>
  /\ lastOp = Op("init", "", FALSE)
  /\ version1 = NoVersion
  /\ version2 = NoVersion
  /\ version3 = NoVersion
  /\ suffix = <<>>
  /\ compared = NotCompared
  /\ NothingCounted
  /\ TwoAdapters

\* a registration that hands the callback the message dispatched last
OnMessageReceivedReplay ==
  \E callback \in ExternalCallbacks :
    /\ Len(_messageCallbacks) <= MaxCallbacks
    /\ _messageCallbacks' = onMessageReceived(_messageCallbacks, callback)
    /\ trace' = IF received = NoMessage
                THEN trace
                ELSE Append(trace, CallbackEvent(callback, received))
    /\ lastOp' = Op("onMessageReceived", callback, FALSE)
    /\ UNCHANGED <<config, sent, received, comparatorVars, countVars,
                   instanceVars>>

\* a caller registers a callback
OnMessageReceived ==
  \E callback \in ExternalCallbacks :
    /\ Len(_messageCallbacks) <= MaxCallbacks
    /\ _messageCallbacks' = onMessageReceived(_messageCallbacks, callback)
    /\ lastOp' = Op("onMessageReceived", callback, FALSE)
    /\ UNCHANGED <<config, sent, received, trace, comparatorVars, countVars,
                   instanceVars>>

\* _messageReceived(message) on the adapter
Dispatch(message) ==
  LET done == _messageReceived(config, _messageCallbacks, message)
  IN /\ Len(done.callbacks) <= MaxCallbacks + 1
     /\ _messageCallbacks' = done.callbacks
     /\ trace' = done.trace
     /\ received' = message
     /\ lastOp' = Op("_messageReceived", "", done.threw)
     /\ UNCHANGED <<config, sent, comparatorVars, instanceVars>>

\* the environment delivers a message
MessageReceived ==
  \E message \in InboundMessages :
    Dispatch(message) /\ UNCHANGED countVars

\* a caller sends a message
SendMessage ==
  \E message \in OutboundMessages :
    /\ Len(sent) < MaxSent
    /\ sent' = sendMessage(sent, message, "caller", _messageCallbacks)
    /\ lastOp' = Op("sendMessage", "", FALSE)
    /\ UNCHANGED <<config, _messageCallbacks, received, trace,
                   comparatorVars, countVars, instanceVars>>

\* the hooks without a body
OnVersionMismatch ==
  /\ lastOp' = Op("onVersionMismatch", "", FALSE)
  /\ UNCHANGED <<config, _messageCallbacks, sent, received, trace,
                 comparatorVars, countVars, instanceVars>>

WillReload ==
  /\ lastOp' = Op("willReload", "", FALSE)
  /\ UNCHANGED <<config, _messageCallbacks, sent, received, trace,
                 comparatorVars, countVars, instanceVars>>

OpenResource ==
  /\ lastOp' = Op("openResource", "", FALSE)
  /\ UNCHANGED <<config, _messageCallbacks, sent, received, trace,
                 comparatorVars, countVars, instanceVars>>

Next ==
  \/ OnMessageReceived
  \/ MessageReceived
  \/ SendMessage
  \/ OnVersionMismatch
  \/ WillReload
  \/ OpenResource

Spec == Init /\ [][Next]_vars

(***************************************************************************)
(* The adapter with its version-mismatch messages and its                  *)
(* onVersionMismatch calls counted.                                        *)
(***************************************************************************)
CountedMessageReceived ==
  \E message \in InboundMessages :
    /\ message.name = "version-mismatch" => reports < MaxReports
    /\ Dispatch(message)
    /\ reports' =
         reports + (IF message.name = "version-mismatch" THEN 1 ELSE 0)
    /\ mismatches' =
         mismatches
         + Len(SelectSeq(trace', LAMBDA e : e.op = "onVersionMismatch"))

NextCount ==
  \/ OnMessageReceived
  \/ CountedMessageReceived

SpecCount == Init /\ [][NextCount]_vars

(***************************************************************************)
(* The comparator on its own: three version texts and a suffix are drawn,  *)
(* and one step compares them.                                             *)
(***************************************************************************)
Majors == 1..MaxMajor
Minors == {5, 9, 10}
Patches == 0..MaxPatch
ValidVersions ==
  { VersionText(major, minor, patch, <<>>) :
      major \in Majors, minor \in Minors, patch \in Patches }
Suffixes == {BetaSuffix, <<"-", "1">>}

WithSuffix(version, sfx) == Str(version.chars \o sfx)

InitCompare ==
  /\ config = WindowConfig
  /\ _messageCallbacks = init.callbacks
  /\ sent = init.sent
  /\ received = NoMessage
  /\ trace = <<>>
  /\ lastOp = Op("init", "", FALSE)
  /\ version1 \in ValidVersions
  /\ version2 \in ValidVersions
  /\ version3 \in ValidVersions
  /\ suffix \in Suffixes
  /\ compared = NotCompared
  /\ NothingCounted
  /\ TwoAdapters

Compare ==
  /\ ~compared.done
  /\ compared' =
       [done |-> TRUE,
        r12 |-> compareVersion(version1, version2),
        r21 |-> compareVersion(version2, version1),
        r23 |-> compareVersion(version2, version3),
        r13 |-> compareVersion(version1, version3),
        s12 |-> compareVersion(WithSuffix(version1, suffix), version2),
        s21 |-> compareVersion(version2, WithSuffix(version1, suffix))]
  /\ UNCHANGED <<adapterVars, version1, version2, version3, suffix,
                 countVars, instanceVars>>

NextCompare == Compare

SpecCompare == InitCompare /\ [][NextCompare]_vars

(***************************************************************************)
(* The comparator on any text: the inputs include texts with fewer than    *)
(* three components.                                                       *)
(***************************************************************************)
ShortVersions ==
  { Str(<<"2">>), Str(<<"2", ".", "5">>), Str(<<"2", ".", "10">>) }
AnyVersions == ValidVersions \cup ShortVersions

InitCompareAny ==
  /\ config = WindowConfig
  /\ _messageCallbacks = init.callbacks
  /\ sent = init.sent
  /\ received = NoMessage
  /\ trace = <<>>
  /\ lastOp = Op("init", "", FALSE)
  /\ version1 \in AnyVersions
  /\ version2 \in AnyVersions
  /\ version3 = VersionText(2, 5, 0, <<>>)
  /\ suffix = BetaSuffix
  /\ compared = NotCompared
  /\ NothingCounted
  /\ TwoAdapters

SpecCompareAny == InitCompareAny /\ [][NextCompare]_vars

(***************************************************************************)
(* Properties.                                                             *)
(***************************************************************************)
\* the callback invocations and the onVersionMismatch calls of a trace
Invocations(tr) == SelectSeq(tr, LAMBDA e : e.op = "callback")
MismatchCalls(tr) == SelectSeq(tr, LAMBDA e : e.op = "onVersionMismatch")
WasInvoked(tr, callback, message) ==
  \E k \in 1..Len(tr) : tr[k] = CallbackEvent(callback, message)
\* the sendMessage calls made by the adapter itself
CoreSends == SelectSeq(sent, LAMBDA e : e.by = "_checkVersion")
IsPrefix(s, t) == Len(s) <= Len(t) /\ SubSeq(t, 1, Len(s)) = s
FromVersion == ArrayGet(config.emberVersionsSupported, 0)
TillVersion == ArrayGet(config.emberVersionsSupported, 1)
\* a mismatch report with a version text was dispatched last
ReportDispatched ==
  received.name = "version-mismatch" /\ IsString(received.version)

\* C1: constructing the adapter sends exactly one check-version message,
\* sent while the version listener is already registered, and nothing the
\* adapter does later (registrations, dispatches) sends another one.
C1_HandshakeOnce ==
  /\ Len(CoreSends) = 1
  /\ Len(sent) >= 1
  /\ sent[1] = [message |-> CheckVersionMessage, by |-> "_checkVersion",
                listening |-> TRUE]

C1_Witness ==
  /\ lastOp.name = "_messageReceived"
  /\ Len(_messageCallbacks) >= 2
  /\ received.name = "version-mismatch"
  /\ Len(trace) >= 2
  /\ Len(sent) = 1

\* C2: a dispatch invokes every callback registered when it begins exactly
\* once each, in registration order, each with the dispatched message.
C2_DispatchInvokesAllInOrder ==
  [][lastOp'.name = "_messageReceived" =>
       Invocations(trace') =
         [i \in 1..Len(_messageCallbacks) |->
            CallbackEvent(_messageCallbacks[i], received')]]_vars

\* whether callback(message) throws
Throws(callback, message) ==
  IF callback = CheckVersionListener
  THEN checkVersionListener(config, message).threw
  ELSE Behaviour(callback) = "throw"

\* C3: when a callback throws during a dispatch, every callback registered
\* after it is still invoked with the message.
C3_CallbackIsolation ==
  [][lastOp'.name = "_messageReceived" =>
       \A i \in 1..Len(_messageCallbacks) :
         \A j \in (i + 1)..Len(_messageCallbacks) :
           Throws(_messageCallbacks[i], received') =>
             WasInvoked(trace', _messageCallbacks[j], received')]_vars

\* C4: a dispatched mismatch report whose version compares LESS than
\* fromVersion makes exactly one onVersionMismatch call, with the last
\* element of previousEmberVersionsSupported (undefined when the list is
\* empty).
C4_TooOldNeedsLastPrevious ==
  (ReportDispatched /\ compareVersion(received.version, FromVersion) = LESS)
  => MismatchCalls(trace) =
       <<MismatchEvent(received,
           IF Len(config.previousEmberVersionsSupported) > 0
           THEN config.previousEmberVersionsSupported[
                  Len(config.previousEmberVersionsSupported)]
           ELSE Undefined)>>

C4_Witness ==
  /\ config = WindowConfig
  /\ received = [name |-> "version-mismatch",
                 version |-> VersionText(1, 5, 0, <<>>)]
  /\ MismatchCalls(trace) =
       <<MismatchEvent(received, VersionText(1, 9, 0, <<>>))>>

\* C5 as stated: a dispatched mismatch report whose version is not LESS
\* than fromVersion and is equal to or greater than a defined tillVersion
\* makes exactly one onVersionMismatch call, with tillVersion.
C5_TooNewNeedsDefinedTill ==
  ( /\ ReportDispatched
    /\ compareVersion(received.version, FromVersion) # LESS
    /\ IsString(TillVersion)
    /\ compareVersion(received.version, TillVersion) \in {EQUAL, GREATER} )
  => MismatchCalls(trace) = <<MismatchEvent(received, TillVersion)>>

\* C5, amended: a dispatched mismatch report whose version is not LESS
\* than fromVersion and is equal to or greater than a tillVersion that is
\* defined and not the empty string makes exactly one onVersionMismatch
\* call, with tillVersion; with an empty tillVersion it makes none.
C5_TooNewNeedsTill ==
  ( /\ ReportDispatched
    /\ compareVersion(received.version, FromVersion) # LESS
    /\ IsString(TillVersion) )
  => /\ ( /\ TillVersion # Str(<<>>)
          /\ compareVersion(received.version, TillVersion)
               \in {EQUAL, GREATER} )
        => MismatchCalls(trace) = <<MismatchEvent(received, TillVersion)>>
     /\ TillVersion = Str(<<>>) => MismatchCalls(trace) = <<>>

C5_Witness ==
  /\ config = WindowConfig
  /\ received = [name |-> "version-mismatch",
                 version |-> VersionText(3, 0, 0, <<>>)]
  /\ MismatchCalls(trace) =
       <<MismatchEvent(received, VersionText(3, 0, 0, <<>>))>>

\* fromVersion <= version, and version < tillVersion when there is one
InWindow(version) ==
  /\ compareVersion(version, FromVersion) \in {EQUAL, GREATER}
  /\ IsString(TillVersion) => compareVersion(version, TillVersion) = LESS

\* C6: a dispatched mismatch report whose version lies in the window
\* (fromVersion included, tillVersion excluded) makes no onVersionMismatch
\* call, and a report that makes one has a version outside the window.
C6_InWindowNoMismatch ==
  ReportDispatched =>
    /\ InWindow(received.version) => MismatchCalls(trace) = <<>>
    /\ MismatchCalls(trace) # <<>> => ~InWindow(received.version)

C6_Witness ==
  /\ config = WindowConfig
  /\ received = [name |-> "version-mismatch",
                 version |-> VersionText(2, 0, 0, <<>>)]
  /\ lastOp.name = "_messageReceived"
  /\ Len(trace) >= 1
  /\ MismatchCalls(trace) = <<>>

\* C7: every dispatched message is passed to every callback a caller has
\* registered, and a message whose name is not version-mismatch makes no
\* onVersionMismatch call.
C7_PassThroughAndNameOnly ==
  [][lastOp'.name = "_messageReceived" =>
       /\ \A i \in 1..Len(_messageCallbacks) :
            _messageCallbacks[i] \in ExternalCallbacks =>
              WasInvoked(trace', _messageCallbacks[i], received')
       /\ received'.name # "version-mismatch" =>
            MismatchCalls(trace') = <<>>]_vars

\* -r of a comparison result
Negate(r) == IF r.type = "number" THEN Num(0 - r.val) ELSE NaN

\* C8: on valid major.minor.patch texts compareVersion is antisymmetric
\* and transitive: LESS with LESS is LESS, GREATER with GREATER is GREATER,
\* and EQUAL composes with any result.
C8_OrderLaws ==
  compared.done =>
    /\ compared.r12 = Negate(compared.r21)
    /\ (compared.r12 = LESS /\ compared.r23 = LESS) => compared.r13 = LESS
    /\ (compared.r12 = GREATER /\ compared.r23 = GREATER)
         => compared.r13 = GREATER
    /\ compared.r12 = EQUAL => compared.r13 = compared.r23
    /\ compared.r23 = EQUAL => compared.r13 = compared.r12

C8_Witness ==
  /\ compared.done
  /\ version1 = VersionText(1, 9, 1, <<>>)
  /\ version2 = VersionText(1, 10, 0, <<>>)
  /\ version3 = VersionText(2, 5, 0, <<>>)
  /\ compared.r12 = LESS
  /\ compared.r21 = GREATER
  /\ compared.r23 = LESS
  /\ compared.r13 = LESS

\* C9: a suffix that starts with "-" does not change a comparison, on
\* either side: compareVersion(v + s, w) = compareVersion(v, w) and
\* compareVersion(w, v + s) = compareVersion(w, v); "2.5.0-beta.1"
\* against "2.5.0" is EQUAL.
C9_SuffixIgnored ==
  compared.done =>
    /\ compared.s12 = compared.r12
    /\ compared.s21 = compared.r21
    /\ version1 = version2 => compared.s12 = EQUAL /\ compared.s21 = EQUAL

C9_Witness ==
  /\ compared.done
  /\ version1 = VersionText(2, 5, 0, <<>>)
  /\ version2 = VersionText(2, 5, 0, <<>>)
  /\ suffix = BetaSuffix
  /\ compared.s12 = EQUAL

\* the callbacks registered from inside a dispatch, one per registering
\* callback it invoked
RegisteredDuring(tr) ==
  [k \in 1..Len(SelectSeq(tr, LAMBDA e : /\ e.op = "callback"
                                         /\ e.callback \in ExternalCallbacks
                                         /\ Behaviour(e.callback) = "register"))
     |-> LateCallback]

\* C10: _messageCallbacks only grows: onMessageReceived appends exactly
\* its callback at the end, also when it is registered already; a dispatch
\* changes the list only by the registrations its callbacks make; and
\* sendMessage, onVersionMismatch, willReload and openResource leave it as
\* it is.  No step removes, reorders or replaces an entry.
C10_CallbacksOnlyGrow ==
  [][/\ IsPrefix(_messageCallbacks, _messageCallbacks')
     /\ lastOp'.name = "onMessageReceived" =>
          _messageCallbacks' = _messageCallbacks \o <<lastOp'.callback>>
     /\ lastOp'.name = "_messageReceived" =>
          _messageCallbacks' = _messageCallbacks \o RegisteredDuring(trace')
     /\ lastOp'.name \in {"sendMessage", "onVersionMismatch", "willReload",
                          "openResource"} =>
          _messageCallbacks' = _messageCallbacks]_vars

C10_Witness ==
  /\ lastOp.name = "openResource"
  /\ Len(sent) >= 2
  /\ Len(trace) >= 3
  /\ \E i \in 1..Len(_messageCallbacks) :
       \E j \in (i + 1)..Len(_messageCallbacks) :
         /\ _messageCallbacks[i] = "T"
         /\ _messageCallbacks[j] = "T"

\* the components of a valid version text
Components == Majors \X Minors \X Patches
TripleOf(version) ==
  CHOOSE t \in Components : VersionText(t[1], t[2], t[3], <<>>) = version
Sign(d) == IF d < 0 THEN LESS ELSE IF d > 0 THEN GREATER ELSE EQUAL
\* the order of two triples of integers: the first component that differs
ByComponents(a, b) ==
  IF a[1] # b[1] THEN Sign(a[1] - b[1])
  ELSE IF a[2] # b[2] THEN Sign(a[2] - b[2])
  ELSE Sign(a[3] - b[3])

\* C11: compareVersion compares the integer values of the components,
\* major, then minor, then patch, returns the result of the first
\* component that differs, and EQUAL only when all three match; the
\* comparison is numeric: "2.10.0" against "2.9.0" is GREATER.
C11_NumericByComponent ==
  compared.done =>
    /\ compared.r12 = ByComponents(TripleOf(version1), TripleOf(version2))
    /\ compared.r12 = EQUAL <=> TripleOf(version1) = TripleOf(version2)

C11_Witness ==
  /\ compared.done
  /\ version1 = VersionText(2, 10, 0, <<>>)
  /\ version2 = VersionText(2, 9, 0, <<>>)
  /\ compared.r12 = GREATER
  /\ compared.r21 = LESS

\* C12: compareVersion returns one of -1, 0 and 1 for every pair of
\* version texts, also for texts with fewer than three components.
C12_ResultIsOrdering ==
  compared.done => compared.r12 \in {LESS, EQUAL, GREATER}

\* C13: onVersionMismatch is called only while a version-mismatch message
\* is dispatched and at most once for it: the calls counted over a run never
\* exceed the version-mismatch messages dispatched, and stay at zero while
\* none has been dispatched.
C13_MismatchOnlyOnReport ==
  /\ mismatches <= reports
  /\ reports = 0 => mismatches = 0
  /\ Len(MismatchCalls(trace)) <= 1
  /\ MismatchCalls(trace) # <<>> => received.name = "version-mismatch"

\* two reports dispatched, one of them answered with onVersionMismatch, and
\* the last message dispatched is not a report
C13_Witness ==
  /\ reports = 2
  /\ mismatches = 1
  /\ received # NoMessage
  /\ received.name # "version-mismatch"
  /\ trace # <<>>

\* C14: when emberVersionsSupported has no tillVersion there is no upper
\* bound: a dispatched mismatch report whose version is not LESS than
\* fromVersion makes no onVersionMismatch call.
C14_NoTillNoUpperBound ==
  ( /\ ReportDispatched
    /\ TillVersion = Undefined
    /\ compareVersion(received.version, FromVersion) # LESS ) =>
    MismatchCalls(trace) = <<>>

\* the configuration without tillVersion, a report above every version the
\* other configurations bound, dispatched to the listener without a call
C14_Witness ==
  /\ config = OpenConfig
  /\ received = [name |-> "version-mismatch",
                 version |-> VersionText(3, 1, 0, <<>>)]
  /\ lastOp.name = "_messageReceived"
  /\ WasInvoked(trace, CheckVersionListener, received)
  /\ MismatchCalls(trace) = <<>>

\* C15: onMessageReceived(callback) invokes nothing: a registration step
\* appends the callback and leaves the record of invocations as it was, so
\* the callback is not run for a message dispatched before; invocations are
\* made by dispatch steps only, each with the message being dispatched.
C15_RegistrationInvokesNothing ==
  /\ [](\A k \in 1..Len(trace) : trace[k].message = received)
  /\ [][/\ lastOp'.name = "onMessageReceived" =>
             /\ trace' = trace
             /\ _messageCallbacks' = Append(_messageCallbacks, lastOp'.callback)
        /\ trace' # trace => lastOp'.name = "_messageReceived"]_vars

\* a callback registered after a dispatch that ran other callbacks: it is at
\* the end of the list and was not invoked with the message dispatched
C15_Witness ==
  /\ lastOp.name = "onMessageReceived"
  /\ received # NoMessage
  /\ Len(Invocations(trace)) >= 2
  /\ _messageCallbacks[Len(_messageCallbacks)] = lastOp.callback
  /\ ~WasInvoked(trace, lastOp.callback, received)

\* C16: every onVersionMismatch call passes a defined version text taken
\* from the configuration, tillVersion or an element of
\* previousEmberVersionsSupported, whatever the configuration, an empty
\* previousEmberVersionsSupported included.
C16_NeededVersionFromConfig ==
  \A k \in 1..Len(MismatchCalls(trace)) :
    LET neededVersion == MismatchCalls(trace)[k].neededVersion
        previousVersions == config.previousEmberVersionsSupported
    IN /\ IsString(neededVersion)
       /\ \/ neededVersion = TillVersion
          \/ \E i \in 1..Len(previousVersions) :
               previousVersions[i] = neededVersion

\* C17: in every state after construction the version listener is the
\* first element of _messageCallbacks, so a dispatch invokes it first, and
\* an onVersionMismatch call comes before every invocation of a callback
\* that a caller registered.
C17_ListenerFirst ==
  /\ _messageCallbacks # <<>>
  /\ _messageCallbacks[1] = CheckVersionListener
  /\ trace # <<>> => trace[1] = CallbackEvent(CheckVersionListener, received)
  /\ \A k \in 1..Len(trace) : \A j \in 1..Len(trace) :
       ( /\ trace[k].op = "onVersionMismatch"
         /\ trace[j].op = "callback"
         /\ trace[j].callback # CheckVersionListener ) => k < j

\* a report that is too old, dispatched to the listener and to a callback
\* of a caller: the listener made its call, the callback ran afterwards
C17_Witness ==
  /\ received = [name |-> "version-mismatch",
                 version |-> VersionText(1, 5, 0, <<>>)]
  /\ Len(MismatchCalls(trace)) = 1
  /\ \E j \in 1..Len(trace) :
       trace[j].op = "callback" /\ trace[j].callback \in ExternalCallbacks

\* C18: a callback registered by onMessageReceived from inside a callback,
\* while a dispatch is in progress, is not invoked for the message being
\* dispatched: the dispatch visits, in order, only callbacks that were
\* registered when it began, and ends.  It is invoked for every later
\* message: the dispatch that follows one with such registrations invokes
\* the whole list, the callbacks registered during the dispatch before
\* included.
C18_LateRegistration ==
  [][lastOp'.name = "_messageReceived" =>
       /\ Len(Invocations(trace')) <= Len(_messageCallbacks)
       /\ \A k \in 1..Len(Invocations(trace')) :
            Invocations(trace')[k] =
              CallbackEvent(_messageCallbacks[k], received')
       /\ ( /\ lastOp.name = "_messageReceived"
            /\ RegisteredDuring(trace) # <<>> ) =>
            \A i \in 1..Len(_messageCallbacks) :
              WasInvoked(trace', _messageCallbacks[i], received')]_vars

(***************************************************************************)
(* Two adapters side by side: callers register callbacks on either, and    *)
(* the environment delivers messages to either.                            *)
(***************************************************************************)
\* adapter.onMessageReceived(callback)
RegisterOn ==
  \E instance \in Instances : \E callback \in ExternalCallbacks :
    /\ Len(lists[callbacksArray(instance)]) <= MaxCallbacks
    /\ lists' = [lists EXCEPT ![callbacksArray(instance)] =
                   onMessageReceived(@, callback)]
    /\ registeredOn' = [registeredOn EXCEPT ![instance] = Append(@, callback)]
    /\ acting' = instance
    /\ lastOp' = Op("onMessageReceived", callback, FALSE)
    /\ UNCHANGED <<config, _messageCallbacks, sent, received, trace,
                   comparatorVars, countVars>>

\* the messages delivered to the two adapters: a report that is too old,
\* one without a version, and a message of another name
TwoMessages ==
  { m \in InboundMessages :
      m.version \in {Undefined, VersionText(1, 5, 0, <<>>)} }

\* adapter._messageReceived(message)
DispatchOn ==
  \E instance \in Instances : \E message \in TwoMessages :
    LET done == _messageReceived(config, lists[callbacksArray(instance)],
                                 message)
    IN /\ Len(done.callbacks) <= MaxCallbacks + 1
       /\ lists' = [lists EXCEPT ![callbacksArray(instance)] = done.callbacks]
       /\ registeredOn' = [registeredOn EXCEPT ![instance] =
                             @ \o RegisteredDuring(done.trace)]
       /\ acting' = instance
       /\ trace' = done.trace
       /\ received' = message
       /\ lastOp' = Op("_messageReceived", "", done.threw)
       /\ UNCHANGED <<config, _messageCallbacks, sent, comparatorVars,
                      countVars>>

NextTwo ==
  \/ RegisterOn
  \/ DispatchOn

SpecTwo == Init /\ [][NextTwo]_vars

\* C19: each adapter owns its _messageCallbacks: its list holds what was
\* registered on it and nothing else; a registration or a dispatch on one
\* adapter leaves the other's list as it was, and a dispatch invokes
\* callbacks registered on the adapter it is made on only.
C19_OwnCallbacks ==
  /\ [](\A i \in Instances : lists[callbacksArray(i)] = registeredOn[i])
  /\ [][/\ \A j \in Instances \ {acting'} :
             lists'[callbacksArray(j)] = lists[callbacksArray(j)]
        /\ lastOp'.name = "_messageReceived" =>
             \A k \in 1..Len(Invocations(trace')) :
               Invocations(trace')[k] =
                 CallbackEvent(registeredOn[acting'][k], received')]_vars

\* a dispatch on the second adapter that ran a callback of a caller, while
\* the first adapter holds a callback the second does not
C19_Witness ==
  /\ acting = 2
  /\ lastOp.name = "_messageReceived"
  /\ Len(Invocations(trace)) >= 2
  /\ \E k \in 1..Len(lists[callbacksArray(1)]) :
       /\ lists[callbacksArray(1)][k] = "T"
       /\ ~WasInvoked(trace, "T", received)
       /\ \A m \in 1..Len(lists[callbacksArray(2)]) :
            lists[callbacksArray(2)][m] # "T"

====
